---- MODULE Spec2Model ----
(***************************************************************************)
(* Delegatecall surface scanner: the analysis engine of analyzeBytecode.   *)
(* A hex string is disassembled (decodeBytecode), split into basic blocks  *)
(* (buildCFG), every DELEGATECALL gets a symbolic stack (traceStackAtPC in *)
(* CFG mode, a running stack in linear mode), the target is classified     *)
(* (classifyTarget), proxy patterns are attached (detectProxyPatterns) and *)
(* the report is assembled with per-site and overall risk.                 *)
(*                                                                         *)
(* Strings are sequences of character codes: 0..15 are the characters      *)
(* '0'..'9','a'..'f', 26..31 are 'A'..'F', and CharX, CharZ, CharN are     *)
(* 'x', 'z' (any character that is no hex digit) and 'N'.                  *)
(***************************************************************************)
EXTENDS Integers, Sequences, FiniteSets, TLC

VARIABLES bytecode, useCFG, phase, instructions, cfg, sites, report,
          stateStack,  \* state.stack, the symbolic stack being simulated
          trace        \* targetPc, worklist and states of a running traceStackAtPC

vars == <<bytecode, useCFG, phase, instructions, cfg, sites, report, stateStack, trace>>

----------------------------------------------------------------------------
(* Characters and strings                                                   *)

CharX == 16
CharZ == 17
CharN == 18
UpperOffset == 16

IsUpperHex(c) == c \in 26..31

\* String.prototype.toLowerCase on one character
toLowerChar(c) == IF IsUpperHex(c) THEN c - UpperOffset ELSE c

toLowerCase(s) == [i \in 1..Len(s) |-> toLowerChar(s[i])]

\* value of a hex digit character, -1 when the character is no hex digit
HexVal(c) ==
  IF c \in 0..15 THEN c
  ELSE IF IsUpperHex(c) THEN c - UpperOffset
  ELSE -1

\* the literal "0x"
Str0x == <<0, CharX>>

startsWith0x(s) == Len(s) >= 2 /\ s[1] = 0 /\ s[2] = CharX

\* s.slice(from) with 0-based from
sliceFrom(s, from) == IF from >= Len(s) THEN <<>> ELSE SubSeq(s, from + 1, Len(s))

\* s.slice(from, to) with 0-based from, exclusive to, clamped to the length
slice(s, from, to) ==
  LET t == IF to > Len(s) THEN Len(s) ELSE to
  IN  IF from >= t THEN <<>> ELSE SubSeq(s, from + 1, t)

\* s.indexOf(pat, from): 0-based index of the first occurrence at or after from, -1 if none
indexOf(s, pat, from) ==
  LET starts == {i \in from..(Len(s) - Len(pat)) :
                    \A k \in 1..Len(pat) : s[i + k] = pat[k]}
  IN  IF starts = {} THEN -1
      ELSE CHOOSE i \in starts : \A j \in starts : i <= j

\* the value parseInt yields for a chunk that holds no hex digit at its start
NaN == 256

\* parseInt(chunk, 16) on a chunk of one or two characters: an optional 0x
\* prefix is skipped, then the longest run of hex digits is read
parseInt16(chunk) ==
  LET body == IF startsWith0x(chunk) THEN sliceFrom(chunk, 2) ELSE chunk
  IN  IF Len(body) = 0 \/ HexVal(body[1]) = -1 THEN NaN
      ELSE IF Len(body) = 1 \/ HexVal(body[2]) = -1 THEN HexVal(body[1])
      ELSE 16 * HexVal(body[1]) + HexVal(body[2])

\* b.toString(16).padStart(2, "0")
byteToHex(b) ==
  IF b = NaN THEN <<CharN, 10, CharN>>
  ELSE <<b \div 16, b % 16>>

RECURSIVE joinHex(_)
\* dataBytes.map(byteToHex).join("")
joinHex(bs) == IF bs = <<>> THEN <<>> ELSE byteToHex(Head(bs)) \o joinHex(Tail(bs))

----------------------------------------------------------------------------
(* Disassembler                                                             *)

\* marks an absent value: instr.pushData of a non-PUSH, an optional field
undefined == <<>>

NoInfo == [name |-> "none", n |-> 0, in |-> 0, out |-> 0, pushBytes |-> 0]

Info(name, n, in, out, pushBytes) ==
  [name |-> name, n |-> n, in |-> in, out |-> out, pushBytes |-> pushBytes]

\* the OPCODES table: PUSH1..PUSH32, DUP1..DUP16, SWAP1..SWAP16 and the
\* common stack operations and calls; the numeric suffix is kept in n
OPCODES(byte) ==
  IF byte \in 96..127 THEN Info("PUSH", byte - 95, 0, 1, byte - 95)
  ELSE IF byte \in 128..143 THEN Info("DUP", byte - 127, byte - 127, byte - 126, 0)
  ELSE IF byte \in 144..159 THEN Info("SWAP", byte - 143, byte - 142, byte - 142, 0)
  ELSE CASE byte = \h00 -> Info("STOP", 0, 0, 0, 0)
         [] byte = \h01 -> Info("ADD", 0, 2, 1, 0)
         [] byte = \h02 -> Info("MUL", 0, 2, 1, 0)
         [] byte = \h03 -> Info("SUB", 0, 2, 1, 0)
         [] byte = \h10 -> Info("LT", 0, 2, 1, 0)
         [] byte = \h11 -> Info("GT", 0, 2, 1, 0)
         [] byte = \h14 -> Info("EQ", 0, 2, 1, 0)
         [] byte = \h15 -> Info("ISZERO", 0, 1, 1, 0)
         [] byte = \h33 -> Info("CALLER", 0, 0, 1, 0)
         [] byte = \h34 -> Info("CALLVALUE", 0, 0, 1, 0)
         [] byte = \h35 -> Info("CALLDATALOAD", 0, 1, 1, 0)
         [] byte = \h36 -> Info("CALLDATASIZE", 0, 0, 1, 0)
         [] byte = \h37 -> Info("CALLDATACOPY", 0, 3, 0, 0)
         [] byte = \h3d -> Info("RETURNDATASIZE", 0, 0, 1, 0)
         [] byte = \h3e -> Info("RETURNDATACOPY", 0, 3, 0, 0)
         [] byte = \h51 -> Info("MLOAD", 0, 1, 1, 0)
         [] byte = \h52 -> Info("MSTORE", 0, 2, 0, 0)
         [] byte = \h53 -> Info("MSTORE8", 0, 2, 0, 0)
         [] byte = \h54 -> Info("SLOAD", 0, 1, 1, 0)
         [] byte = \h55 -> Info("SSTORE", 0, 2, 0, 0)
         [] byte = \h56 -> Info("JUMP", 0, 1, 0, 0)
         [] byte = \h57 -> Info("JUMPI", 0, 2, 0, 0)
         [] byte = \h5b -> Info("JUMPDEST", 0, 0, 0, 0)
         [] byte = \hf1 -> Info("CALL", 0, 7, 1, 0)
         [] byte = \hf2 -> Info("CALLCODE", 0, 7, 1, 0)
         [] byte = \hf4 -> Info("DELEGATECALL", 0, 6, 1, 0)
         [] byte = \hfa -> Info("STATICCALL", 0, 6, 1, 0)
         [] byte = \hfd -> Info("REVERT", 0, 2, 0, 0)
         [] byte = \hff -> Info("SELFDESTRUCT", 0, 1, 0, 0)
         [] OTHER -> NoInfo

\* bytecode.startsWith("0x") ? bytecode.slice(2) : bytecode
stripPrefix(s) == IF startsWith0x(s) THEN sliceFrom(s, 2) ELSE s

\* for (i = 0; i < clean.length; i += 2) bytes.push(parseInt(clean.slice(i, i + 2), 16))
parseBytes(clean) ==
  [k \in 1..((Len(clean) + 1) \div 2) |-> parseInt16(slice(clean, 2 * (k - 1), 2 * k))]

\* an instruction; op is the mnemonic without its numeric suffix, n the suffix of
\* PUSH/DUP/SWAP, and for the raw-byte placeholder 0xNN op is "0x" and n the byte
Instr(pc, op, n, pushData, stackIn, stackOut) ==
  [pc |-> pc, op |-> op, n |-> n, pushData |-> pushData,
   stackIn |-> stackIn, stackOut |-> stackOut]

\* mutant of advancedPc: the cursor stops one byte short of the end of the immediate
advancedPcOneShort(pc, info) == IF info.pushBytes > 0 THEN pc + info.pushBytes ELSE pc + 1

\* pc of a known opcode is set after the cursor has advanced
advancedPc(pc, info) == IF info.pushBytes > 0 THEN pc + 1 + info.pushBytes ELSE pc + 1

RECURSIVE decodeLoop(_, _)
\* the while loop of decodeBytecode from cursor pc: the instructions it pushes
decodeLoop(bytes, pc) ==
  IF pc >= Len(bytes) THEN <<>>
  ELSE LET byte == bytes[pc + 1]
           info == OPCODES(byte)
       IN  IF info = NoInfo
           THEN <<Instr(pc, "0x", byte, undefined, 0, 0)>> \o decodeLoop(bytes, pc + 1)
           ELSE LET next == advancedPc(pc, info)
                    pushData == IF info.pushBytes > 0
                                THEN Str0x \o joinHex(slice(bytes, pc + 1, pc + 1 + info.pushBytes))
                                ELSE undefined
                IN  <<Instr(next, info.name, info.n, pushData, info.in, info.out)>>
                      \o decodeLoop(bytes, next)

decodeBytecode(code) == decodeLoop(parseBytes(stripPrefix(code)), 0)

----------------------------------------------------------------------------
(* Symbolic expressions and the transfer functions                          *)

Unknown == [kind |-> "Unknown"]
Literal(value) == [kind |-> "Literal", value |-> value]
Storage(slotExpr) == [kind |-> "Storage", slotExpr |-> slotExpr]
Calldata(offsetExpr) == [kind |-> "Calldata", offsetExpr |-> offsetExpr]
Environment(source) == [kind |-> "Environment", source |-> source]
OpExpr(op, args) == [kind |-> "Op", op |-> op, args |-> args]

\* the elements of a sequence
Range(s) == {s[i] : i \in 1..Len(s)}

Min(a, b) == IF a < b THEN a ELSE b
Max(a, b) == IF a > b THEN a ELSE b

\* pop(n): the n popped values, deepest first; an empty stack yields Unknown
popped(stack, n) ==
  LET k == Min(n, Len(stack))
  IN  [i \in 1..n |-> IF i <= n - k THEN Unknown ELSE stack[Len(stack) - n + i]]

\* the stack that pop(n) leaves
afterPop(stack, n) == SubSeq(stack, 1, Len(stack) - Min(n, Len(stack)))

\* the PUSH rule of both transfer functions
applyPush(pushData, stack) ==
  Append(stack, Literal(IF pushData = undefined THEN Str0x ELSE pushData))

\* the DUP rule of both transfer functions
applyDup(n, stack) ==
  LET idx == Len(stack) - n
  IN  Append(stack, IF idx >= 0 THEN stack[idx + 1] ELSE Unknown)

\* the SWAP rule of both transfer functions
applySwap(n, stack) ==
  LET top == Len(stack) - 1
      other == Len(stack) - 1 - n
  IN  IF top >= 0 /\ other >= 0
      THEN [stack EXCEPT ![top + 1] = stack[other + 1], ![other + 1] = stack[top + 1]]
      ELSE stack

NoOpcodeInfo == [stackIn |-> -1, stackOut |-> -1]

\* the table of the tracer's default rule; null for every other mnemonic
getOpcodeInfo(op) ==
  CASE op = "STOP" -> [stackIn |-> 0, stackOut |-> 0]
    [] op \in {"ADD", "MUL", "SUB", "DIV", "MOD", "AND", "OR", "XOR", "EQ", "LT", "GT"}
         -> [stackIn |-> 2, stackOut |-> 1]
    [] op = "ISZERO" -> [stackIn |-> 1, stackOut |-> 1]
    [] op = "CALLDATALOAD" -> [stackIn |-> 1, stackOut |-> 1]
    [] op = "CALLDATASIZE" -> [stackIn |-> 0, stackOut |-> 1]
    [] op = "SLOAD" -> [stackIn |-> 1, stackOut |-> 1]
    [] op = "SSTORE" -> [stackIn |-> 2, stackOut |-> 0]
    [] op = "JUMP" -> [stackIn |-> 1, stackOut |-> 0]
    [] op = "JUMPI" -> [stackIn |-> 2, stackOut |-> 0]
    [] op = "DELEGATECALL" -> [stackIn |-> 6, stackOut |-> 1]
    [] op = "CALL" -> [stackIn |-> 7, stackOut |-> 1]
    [] op = "STATICCALL" -> [stackIn |-> 6, stackOut |-> 1]
    [] OTHER -> NoOpcodeInfo

\* the default rule of the tracer: pop stackIn, push stackOut Unknowns, and
\* nothing at all for a mnemonic getOpcodeInfo does not list
applyDefault(op, stack) ==
  LET info == getOpcodeInfo(op)
  IN  IF info = NoOpcodeInfo THEN stack
      ELSE afterPop(stack, info.stackIn) \o [i \in 1..info.stackOut |-> Unknown]

\* applyInstructionToStack of the stack tracer (CFG mode)
applyInstructionToStack(instr, stack) ==
  LET op == instr.op
  IN  CASE op = "PUSH" -> applyPush(instr.pushData, stack)
        [] op = "DUP" -> applyDup(instr.n, stack)
        [] op = "SWAP" -> applySwap(instr.n, stack)
        [] op = "CALLDATALOAD" -> Append(afterPop(stack, 1), Calldata(popped(stack, 1)[1]))
        [] op = "SLOAD" -> Append(afterPop(stack, 1), Storage(popped(stack, 1)[1]))
        [] op \in {"CALLER", "ADDRESS", "ORIGIN"} -> Append(stack, Environment(op))
        [] op = "MLOAD" -> Append(afterPop(stack, 1), Unknown)
        [] op \in {"MSTORE", "MSTORE8"} -> afterPop(stack, 2)
        [] op \in {"ADD", "SUB", "MUL", "DIV", "MOD", "AND", "OR", "XOR", "EQ", "LT", "GT"}
             -> Append(afterPop(stack, 2), OpExpr(op, popped(stack, 2)))
        [] op = "ISZERO" -> Append(afterPop(stack, 1), OpExpr(op, popped(stack, 1)))
        [] op = "POP" -> afterPop(stack, 1)
        [] OTHER -> applyDefault(op, stack)

\* applyInstructionToStack of the scanner (linear mode): its default rule
\* shrinks the stack by one slot whatever the opcode
applyInstructionToStackLinear(instr, stack) ==
  LET op == instr.op
  IN  CASE op = "PUSH" -> applyPush(instr.pushData, stack)
        [] op = "DUP" -> applyDup(instr.n, stack)
        [] op = "SWAP" -> applySwap(instr.n, stack)
        [] op = "CALLDATALOAD" -> Append(afterPop(stack, 1), Calldata(popped(stack, 1)[1]))
        [] op = "SLOAD" -> Append(afterPop(stack, 1), Storage(popped(stack, 1)[1]))
        [] op \in {"CALLER", "ADDRESS", "ORIGIN"} -> Append(stack, Environment(op))
        [] op \in {"ADD", "SUB", "MUL", "DIV", "AND", "OR", "XOR", "EQ", "LT", "GT"}
             -> Append(afterPop(stack, 2), OpExpr(op, popped(stack, 2)))
        [] OTHER -> SubSeq(stack, 1, Max(0, Len(stack) - 1))

----------------------------------------------------------------------------
(* Control-flow graph                                                       *)

TERMINATORS == {"STOP", "RETURN", "REVERT", "SELFDESTRUCT", "JUMP", "JUMPI"}

\* first pass of buildCFG: 0, the pc of every JUMPDEST and the pc of the
\* instruction after every terminator
leaders(instrs) ==
  {0} \cup {instrs[i].pc : i \in {j \in 1..Len(instrs) : instrs[j].op = "JUMPDEST"}}
      \cup {instrs[i + 1].pc :
              i \in {j \in 1..(Len(instrs) - 1) : instrs[j].op \in TERMINATORS}}

RECURSIVE sortAscending(_)
\* Array.from(set).sort((a, b) => a - b)
sortAscending(S) ==
  IF S = {} THEN <<>>
  ELSE LET m == CHOOSE x \in S : \A y \in S : x <= y
       IN  <<m>> \o sortAscending(S \ {m})

\* instructions.filter(pred) for pred given as the set of indices it accepts
RECURSIVE filterIdx(_, _, _)
filterIdx(s, keep, i) ==
  IF i > Len(s) THEN <<>>
  ELSE (IF i \in keep THEN <<s[i]>> ELSE <<>>) \o filterIdx(s, keep, i + 1)

\* end of the last block: the number of instructions minus one
lastEndPc(instrs) == Len(instrs) - 1

\* second pass of buildCFG: one block per leader, without edges yet
formBlocks(instrs) ==
  LET sortedLeaders == sortAscending(leaders(instrs))
  IN  [i \in 1..Len(sortedLeaders) |->
        LET startPc == sortedLeaders[i]
            endPc == IF i + 1 <= Len(sortedLeaders)
                     THEN sortedLeaders[i + 1] - 1
                     ELSE lastEndPc(instrs)
        IN  [startPc |-> startPc,
             endPc |-> endPc,
             instructions |->
               filterIdx(instrs,
                         {k \in 1..Len(instrs) : instrs[k].pc >= startPc /\ instrs[k].pc <= endPc},
                         1),
             successors |-> <<>>,
             predecessors |-> <<>>]]

\* index in blocks of the first block with startPc <= pc <= endPc, 0 for null
blockIndexContaining(blocks, pc) ==
  LET hits == {i \in 1..Len(blocks) : pc >= blocks[i].startPc /\ pc <= blocks[i].endPc}
  IN  IF hits = {} THEN 0 ELSE CHOOSE i \in hits : \A j \in hits : i <= j

NoBlock == [startPc |-> -1, endPc |-> -1, instructions |-> <<>>,
            successors |-> <<>>, predecessors |-> <<>>]

getBlockContaining(blocks, pc) ==
  IF blockIndexContaining(blocks, pc) = 0 THEN NoBlock
  ELSE blocks[blockIndexContaining(blocks, pc)]

\* instructions.find((instr) => instr.pc > pc)?.pc, -1 for undefined
nextPcAfter(instrs, pc) ==
  LET later == {k \in 1..Len(instrs) : instrs[k].pc > pc}
  IN  IF later = {} THEN -1
      ELSE instrs[CHOOSE k \in later : \A j \in later : k <= j].pc

\* mutant of successorsOf: a JUMPI block is also linked to every JUMPDEST block
successorsOfWithJumpTargets(instrs, blocks, block) ==
  IF block.instructions = <<>> THEN <<>>
  ELSE LET lastInstr == block.instructions[Len(block.instructions)]
           nextPc == nextPcAfter(instrs, lastInstr.pc)
           nextBlock == getBlockContaining(blocks, nextPc)
           fall == IF nextPc # -1 /\ nextBlock # NoBlock THEN <<nextBlock.startPc>> ELSE <<>>
       IN  IF lastInstr.op = "JUMP" THEN <<>>
           ELSE IF lastInstr.op = "JUMPI"
                THEN fall \o sortAscending({instrs[k].pc : k \in {j \in 1..Len(instrs) :
                                                                  instrs[j].op = "JUMPDEST"}}
                                              \ Range(fall))
                ELSE IF lastInstr.op \notin TERMINATORS THEN fall ELSE <<>>

\* third pass, one block: the successors the block gets (at most one)
successorsOf(instrs, blocks, block) ==
  IF block.instructions = <<>> THEN <<>>
  ELSE LET lastInstr == block.instructions[Len(block.instructions)]
           nextPc == nextPcAfter(instrs, lastInstr.pc)
           nextBlock == getBlockContaining(blocks, nextPc)
       IN  IF lastInstr.op = "JUMP" THEN <<>>
           ELSE IF lastInstr.op = "JUMPI" \/ lastInstr.op \notin TERMINATORS
                THEN IF nextPc # -1 /\ nextBlock # NoBlock
                     THEN <<nextBlock.startPc>> ELSE <<>>
                ELSE <<>>

\* mutant of predecessorsOf: block.predecessors.push(nextBlock.startPc)
predecessorsOfSwapped(instrs, blocks, startPc, i) ==
  successorsOf(instrs, blocks,
               blocks[CHOOSE k \in 1..Len(blocks) : blocks[k].startPc = startPc])

RECURSIVE predecessorsOf(_, _, _, _)
\* third pass: the predecessors pushed onto the block starting at startPc, in
\* the order the blocks are visited
predecessorsOf(instrs, blocks, startPc, i) ==
  IF i > Len(blocks) THEN <<>>
  ELSE (IF \E k \in 1..Len(successorsOf(instrs, blocks, blocks[i])) :
              successorsOf(instrs, blocks, blocks[i])[k] = startPc
        THEN <<blocks[i].startPc>> ELSE <<>>)
       \o predecessorsOf(instrs, blocks, startPc, i + 1)

\* buildCFG: the blocks in ascending leader order (the insertion order of the
\* map), with their edges; the entry block is the block whose startPc is 0
buildCFG(instrs) ==
  LET blocks == formBlocks(instrs)
  IN  [blocks |->
         [i \in 1..Len(blocks) |->
            [blocks[i] EXCEPT
               !.successors = successorsOf(instrs, blocks, blocks[i]),
               !.predecessors = predecessorsOf(instrs, blocks, blocks[i].startPc, 1)]],
       entryBlock |-> 0]

\* cfg.blocks.get(pc): index of the block keyed by pc, 0 when there is none
blockIndexAt(blocks, pc) ==
  LET hits == {i \in 1..Len(blocks) : blocks[i].startPc = pc}
  IN  IF hits = {} THEN 0 ELSE CHOOSE i \in hits : TRUE

----------------------------------------------------------------------------
(* Symbolic stack tracer                                                    *)

\* a BlockState; the memory map is created empty and never written
BlockState(stack) == [stack |-> stack, memory |-> <<>>]

RECURSIVE applyAll(_, _, _)
\* the transfer function applied to instrs[i..] in order
applyAll(instrs, i, stack) ==
  IF i > Len(instrs) THEN stack
  ELSE applyAll(instrs, i + 1, applyInstructionToStack(instrs[i], stack))

simulateBlock(block, initialState) ==
  BlockState(applyAll(block.instructions, 1, initialState.stack))

joinStates(state1, state2) ==
  IF Len(state1.stack) # Len(state2.stack)
  THEN BlockState([i \in 1..Len(state1.stack) |-> Unknown])
  ELSE BlockState([i \in 1..Len(state1.stack) |->
                     IF state1.stack[i] = state2.stack[i] THEN state1.stack[i] ELSE Unknown])

RECURSIVE reduceJoin(_, _, _)
\* predStates.reduce((acc, s) => joinStates(acc, s), predStates[0])
reduceJoin(predStates, i, acc) ==
  IF i > Len(predStates) THEN acc
  ELSE reduceJoin(predStates, i + 1, joinStates(acc, predStates[i]))

RECURSIVE seenStates(_, _, _)
\* block.predecessors.map((p) => states.get(p)).filter((s) => s !== undefined)
seenStates(preds, states, i) ==
  IF i > Len(preds) THEN <<>>
  ELSE (IF preds[i] \in DOMAIN states THEN <<states[preds[i]]>> ELSE <<>>)
       \o seenStates(preds, states, i + 1)

\* the state a block is simulated from
initialStateOf(block, states) ==
  IF Len(block.predecessors) = 0
  THEN IF block.startPc \in DOMAIN states THEN states[block.startPc] ELSE BlockState(<<>>)
  ELSE LET predStates == seenStates(block.predecessors, states, 1)
       IN  IF Len(predStates) > 0 THEN reduceJoin(predStates, 1, predStates[1])
           ELSE BlockState(<<>>)

RECURSIVE pushNew(_, _, _)
\* for (succPc of successors) if (!worklist.includes(succPc)) worklist.push(succPc)
pushNew(worklist, succs, i) ==
  IF i > Len(succs) THEN worklist
  ELSE pushNew(IF \E k \in 1..Len(worklist) : worklist[k] = succs[i]
               THEN worklist ELSE Append(worklist, succs[i]),
               succs, i + 1)

\* states.set(pc, state)
setState(states, pc, state) ==
  [k \in DOMAIN states \cup {pc} |-> IF k = pc THEN state ELSE states[k]]

RECURSIVE worklistLoop(_, _, _)
\* the while loop of traceStackAtPC: the states map when the worklist is empty
worklistLoop(blocks, worklist, states) ==
  IF worklist = <<>> THEN states
  ELSE LET blockPc == Head(worklist)
           rest == Tail(worklist)
           bi == blockIndexAt(blocks, blockPc)
       IN  IF bi = 0 THEN worklistLoop(blocks, rest, states)
           ELSE LET block == blocks[bi]
                    finalState == simulateBlock(block, initialStateOf(block, states))
                    changed == blockPc \notin DOMAIN states
                               \/ states[blockPc].stack # finalState.stack
                IN  IF changed
                    THEN worklistLoop(blocks, pushNew(rest, block.successors, 1),
                                      setState(states, blockPc, finalState))
                    ELSE worklistLoop(blocks, rest, states)

\* index of the first instruction with the given pc, 0 when there is none
findPc(instrs, pc) ==
  LET hits == {i \in 1..Len(instrs) : instrs[i].pc = pc}
  IN  IF hits = {} THEN 0 ELSE CHOOSE i \in hits : \A j \in hits : i <= j

\* the state the replay up to the target starts from: the state recorded for
\* the target block when the worklist is empty
replayStart(states, targetBlock) == states[targetBlock.startPc]

traceStackAtPC(graph, targetPc) ==
  LET targetBlock == getBlockContaining(graph.blocks, targetPc)
      \* the entry block exists in every graph buildCFG returns
      states == worklistLoop(graph.blocks, <<targetBlock.startPc>>,
                             (graph.entryBlock :> BlockState(<<>>)))
      at == findPc(targetBlock.instructions, targetPc)
  IN  IF targetBlock = NoBlock THEN <<>>
      ELSE IF at = 0 THEN <<>>
      ELSE IF targetBlock.startPc \notin DOMAIN states THEN <<>>
      ELSE applyAll(SubSeq(targetBlock.instructions, 1, at - 1), 1,
                    replayStart(states, targetBlock).stack)

\* mutant of dequeued: the block is read but stays at the head of the worklist
notDequeued(worklist) == worklist

\* worklist.shift(): the worklist without its head
dequeued(worklist) == Tail(worklist)

\* one pass of the while loop of traceStackAtPC: the worklist and the states
\* map after it
worklistStep(blocks, worklist, states) ==
  LET blockPc == Head(worklist)
      rest == dequeued(worklist)
      bi == blockIndexAt(blocks, blockPc)
  IN  IF bi = 0 THEN [worklist |-> rest, states |-> states]
      ELSE LET block == blocks[bi]
               finalState == simulateBlock(block, initialStateOf(block, states))
               changed == blockPc \notin DOMAIN states
                          \/ states[blockPc].stack # finalState.stack
           IN  IF changed
               THEN [worklist |-> pushNew(rest, block.successors, 1),
                     states |-> setState(states, blockPc, finalState)]
               ELSE [worklist |-> rest, states |-> states]

\* the end of traceStackAtPC, after the loop: the replay up to the target
replayToTarget(graph, targetPc, states) ==
  LET targetBlock == getBlockContaining(graph.blocks, targetPc)
      at == findPc(targetBlock.instructions, targetPc)
  IN  IF at = 0 THEN <<>>
      ELSE IF targetBlock.startPc \notin DOMAIN states THEN <<>>
      ELSE applyAll(SubSeq(targetBlock.instructions, 1, at - 1), 1,
                    replayStart(states, targetBlock).stack)

----------------------------------------------------------------------------
(* Target classifier                                                        *)

\* details: a fixed text, the literal of literal(<v>) or the name of op(<name>)
Details(text, arg, op) == [text |-> text, arg |-> arg, op |-> op]
NoDetails == Details("undefined", undefined, "")

Classification(type, addressLiteral, storageSlotLiteral, details) ==
  [type |-> type, addressLiteral |-> addressLiteral,
   storageSlotLiteral |-> storageSlotLiteral, details |-> details]

normalize(v) == Str0x \o stripPrefix(v)

\* hex digits of a 32-byte slot, written as bytes
EIP1967_SLOT ==
  Str0x \o joinHex(<<\h36, \h08, \h94, \ha1, \h3b, \ha1, \ha3, \h21, \h06, \h67, \hc8,
                     \h28, \h49, \h2d, \hb9, \h8d, \hca, \h3e, \h20, \h76, \hcc, \h37,
                     \h35, \ha9, \h20, \ha3, \hca, \h50, \h5d, \h38, \h2b, \hbc>>)

\* mutant of extractStorageSlotLiteral: the literal of the slot is never extracted
extractNoSlotLiteral(slotExpr) == undefined

\* null when the slot expression is no literal
extractStorageSlotLiteral(slotExpr) ==
  IF slotExpr.kind = "Literal" THEN normalize(slotExpr.value) ELSE undefined

\* hardcoded when the normalized literal has 40 or 42 characters
isAddressLength(v) == Len(v) = 40 \/ Len(v) = 42

\* mutant of classifyOther: lost provenance is reported as a computed target
classifyOtherAsDynamic(expr) ==
  Classification("dynamic", undefined, undefined, NoDetails)

\* mutant of classifyOther: the final return is missing
classifyOtherUntyped(expr) ==
  Classification("undefined", undefined, undefined, NoDetails)

\* what classifyTarget returns for a kind none of its branches names
classifyOther(expr) == Classification("unknown", undefined, undefined, NoDetails)

classifyTarget(expr) ==
  CASE expr.kind = "Literal" ->
         LET v == normalize(expr.value)
         IN  IF isAddressLength(v)
             THEN Classification("hardcoded", v, undefined, NoDetails)
             ELSE Classification("unknown", undefined, undefined, Details("literal", v, ""))
    [] expr.kind = "Storage" ->
         LET slot == extractStorageSlotLiteral(expr.slotExpr)
         IN  IF slot # undefined
             THEN Classification("storage", undefined, slot,
                                 IF toLowerCase(slot) = EIP1967_SLOT
                                 THEN Details("EIP-1967 implementation slot", undefined, "")
                                 ELSE NoDetails)
             ELSE Classification("storage", undefined, undefined,
                                 Details("non-literal storage slot", undefined, ""))
    [] expr.kind = "Calldata" ->
         Classification("calldata", undefined, undefined,
                        Details("derived from CALLDATALOAD", undefined, ""))
    [] expr.kind = "Op" ->
         Classification("dynamic", undefined, undefined, Details("op", undefined, expr.op))
    [] OTHER -> classifyOther(expr)

----------------------------------------------------------------------------
(* Pattern detector                                                         *)

EIP1167_PREFIX == joinHex(<<\h36, \h3d, \h3d, \h37, \h3d, \h3d, \h3d, \h36, \h3d, \h73>>)
EIP1167_SUFFIX ==
  joinHex(<<\h5a, \hf4, \h3d, \h82, \h80, \h3e, \h90, \h3d, \h91, \h60, \h2b, \h57,
            \hfd, \h5b, \hf3>>)

EIP1967_IMPL_SLOT == EIP1967_SLOT

UUPS_SLOT ==
  Str0x \o joinHex(<<\hc5, \hf1, \h6f, \h0f, \hcc, \h63, \h9f, \ha4, \h8a, \h69, \h47,
                     \h83, \h6d, \h98, \h50, \hf5, \h04, \h79, \h85, \h23, \hbf, \h8c,
                     \h9a, \h3a, \h87, \hd5, \h87, \h6c, \hf6, \h22, \hbc, \hf7>>)

PatternMatch(name, description) == [name |-> name, description |-> description]
NoPattern == PatternMatch("null", "")

\* a delegatecall site; id is site-<pc>, kept as the pc
Site(pc, blockId, targetExpression, classification, patternMatch) ==
  [id |-> pc, pc |-> pc, blockId |-> blockId, targetExpression |-> targetExpression,
   classification |-> classification, patternMatch |-> patternMatch]

\* the number of hex characters of a 20-byte implementation address
ImplChars == 40

\* mutant of detectEip1167: the suffix is searched right after the prefix
detectEip1167NoSkip(cleanBytecode) ==
  LET lower == toLowerCase(cleanBytecode)
      idx == indexOf(lower, EIP1167_PREFIX, 0)
  IN  IF idx = -1 THEN FALSE
      ELSE indexOf(lower, EIP1167_SUFFIX, idx + Len(EIP1167_PREFIX)) # -1

detectEip1167(cleanBytecode) ==
  LET lower == toLowerCase(cleanBytecode)
      idx == indexOf(lower, EIP1167_PREFIX, 0)
  IN  IF idx = -1 THEN FALSE
      ELSE indexOf(lower, EIP1167_SUFFIX, idx + Len(EIP1167_PREFIX) + ImplChars) # -1

\* mutant of detectDiamondPattern: one literal slot is enough
detectDiamondOneSlot(siteList) ==
  LET storageSites == {i \in 1..Len(siteList) : siteList[i].classification.type = "storage"}
      uniqueSlots == {siteList[i].classification.storageSlotLiteral : i \in storageSites}
                       \ {undefined}
  IN  IF Len(siteList) < 2 THEN FALSE
      ELSE IF Cardinality(storageSites) < 2 THEN FALSE
      ELSE Cardinality(uniqueSlots) >= 1

\* mutant of detectDiamondPattern: only the first two sites are compared
detectDiamondFirstTwo(siteList) ==
  IF Len(siteList) < 2 THEN FALSE
  ELSE /\ siteList[1].classification.type = "storage"
       /\ siteList[2].classification.type = "storage"
       /\ siteList[1].classification.storageSlotLiteral # undefined
       /\ siteList[2].classification.storageSlotLiteral # undefined
       /\ siteList[1].classification.storageSlotLiteral
            # siteList[2].classification.storageSlotLiteral

detectDiamondPattern(siteList) ==
  LET storageSites == {i \in 1..Len(siteList) : siteList[i].classification.type = "storage"}
      uniqueSlots == {siteList[i].classification.storageSlotLiteral : i \in storageSites}
                       \ {undefined}
  IN  IF Len(siteList) < 2 THEN FALSE
      ELSE IF Cardinality(storageSites) < 2 THEN FALSE
      ELSE Cardinality(uniqueSlots) >= 2

\* mutant of storageSlotsOf: the set holds the slot of the first site only
storageSlotsOfFirst(siteList) ==
  {toLowerCase(siteList[i].classification.storageSlotLiteral) :
     i \in {j \in 1..Len(siteList) :
              j = 1 /\ siteList[j].classification.storageSlotLiteral # undefined}}

\* the lowercased slot literals of all sites
storageSlotsOf(siteList) ==
  {toLowerCase(siteList[i].classification.storageSlotLiteral) :
     i \in {j \in 1..Len(siteList) : siteList[j].classification.storageSlotLiteral # undefined}}

detectProxyPatterns(code, siteList) ==
  LET clean == stripPrefix(code)
      isEip1167 == detectEip1167(clean)
      storageSlots == storageSlotsOf(siteList)
      isDiamond == detectDiamondPattern(siteList)
  IN  [i \in 1..Len(siteList) |->
        LET site == siteList[i]
            slot == site.classification.storageSlotLiteral
        IN  [site EXCEPT !.patternMatch =
              IF isEip1167
              THEN PatternMatch("EIP-1167", "Minimal proxy clone pattern")
              ELSE IF slot # undefined /\ toLowerCase(slot) = EIP1967_IMPL_SLOT
              THEN IF UUPS_SLOT \in storageSlots
                   THEN PatternMatch("UUPS", "UUPS upgradeable proxy pattern")
                   ELSE PatternMatch("EIP-1967",
                                     "EIP-1967 transparent proxy implementation slot")
              ELSE IF isDiamond
              THEN PatternMatch("Diamond", "EIP-2535 Diamond pattern (multiple facets)")
              ELSE NoPattern]]

RECURSIVE countPatterns(_, _, _)
\* the loop of summarizeProxyPatterns: entries in order of first occurrence
countPatterns(siteList, i, counts) ==
  IF i > Len(siteList) THEN counts
  ELSE LET name == siteList[i].patternMatch.name
           at == {k \in 1..Len(counts) : counts[k].name = name}
       IN  IF siteList[i].patternMatch = NoPattern
           THEN countPatterns(siteList, i + 1, counts)
           ELSE IF at = {}
           THEN countPatterns(siteList, i + 1, Append(counts, [name |-> name, count |-> 1]))
           ELSE countPatterns(siteList, i + 1,
                  [k \in 1..Len(counts) |->
                     IF k \in at THEN [counts[k] EXCEPT !.count = @ + 1] ELSE counts[k]])

summarizeProxyPatterns(siteList) == countPatterns(siteList, 1, <<>>)

----------------------------------------------------------------------------
(* Risk and report                                                          *)

\* mutant of classifyRisk: the EIP-1167 exception of hardcoded targets is missing
classifyRiskIgnoringPattern(classification, pattern) ==
  LET type == classification.type
  IN  IF type = "hardcoded" THEN "low"
      ELSE IF type = "storage" THEN "medium"
      ELSE IF type \in {"calldata", "dynamic"} THEN "high"
      ELSE "unknown"

classifyRisk(classification, pattern) ==
  LET type == classification.type
  IN  IF type = "hardcoded"
      THEN IF pattern # NoPattern /\ pattern.name = "EIP-1167" THEN "medium" ELSE "low"
      ELSE IF type = "storage"
      THEN IF pattern # NoPattern /\ pattern.name \in {"EIP-1967", "UUPS", "Diamond"}
           THEN "medium" ELSE "medium"
      ELSE IF type = "calldata" THEN "high"
      ELSE IF type = "dynamic" THEN "high"
      ELSE "unknown"

\* mutant of orderIndexOf: order = ["unknown", "low", "medium", "high"]
orderIndexOfUnknownFirst(r) ==
  CASE r = "unknown" -> 0 [] r = "low" -> 1 [] r = "medium" -> 2 [] r = "high" -> 3
    [] OTHER -> -1

\* order.indexOf(r) for order = ["low", "medium", "high", "unknown"]
orderIndexOf(r) ==
  CASE r = "low" -> 0 [] r = "medium" -> 1 [] r = "high" -> 2 [] r = "unknown" -> 3
    [] OTHER -> -1

RECURSIVE reduceRisk(_, _, _)
\* risks.reduce((acc, r) => order.indexOf(r) > order.indexOf(acc) ? r : acc, acc)
reduceRisk(risks, i, acc) ==
  IF i > Len(risks) THEN acc
  ELSE reduceRisk(risks, i + 1,
                  IF orderIndexOf(risks[i]) > orderIndexOf(acc) THEN risks[i] ELSE acc)

\* mutant of overallRiskOf: the reduce runs without the length check
overallRiskOfNoEmptyCheck(reportSites) ==
  reduceRisk([i \in 1..Len(reportSites) |-> reportSites[i].risk], 1, "low")

\* overallRisk; "undefined" when there are no sites
overallRiskOf(reportSites) ==
  IF Len(reportSites) > 0
  THEN reduceRisk([i \in 1..Len(reportSites) |-> reportSites[i].risk], 1, "low")
  ELSE "undefined"

reportSitesOf(enrichedSites) ==
  [i \in 1..Len(enrichedSites) |->
     [id |-> enrichedSites[i].id,
      pc |-> enrichedSites[i].pc,
      classification |-> enrichedSites[i].classification,
      pattern |-> enrichedSites[i].patternMatch,
      risk |-> classifyRisk(enrichedSites[i].classification, enrichedSites[i].patternMatch)]]

\* the target address slot: stack[len - 2], Unknown when the stack is too shallow
targetExprOf(stack) ==
  LET idx == Len(stack) - 2
  IN  IF idx >= 0 THEN stack[idx + 1] ELSE Unknown

\* blockId of the sites of linear mode
LinearBlockId == -1

\* mutant of pushSite: sites.unshift(site)
unshiftSite(siteList, site) == <<site>> \o siteList

\* a site is appended to the list
pushSite(siteList, site) == Append(siteList, site)

RECURSIVE scanCFG(_, _, _, _)
\* the loop of CFG mode over instrs[i..]
scanCFG(graph, instrs, i, siteList) ==
  IF i > Len(instrs) THEN siteList
  ELSE IF instrs[i].op = "DELEGATECALL"
  THEN LET targetExpr == targetExprOf(traceStackAtPC(graph, instrs[i].pc))
           block == getBlockContaining(graph.blocks, instrs[i].pc)
       IN  scanCFG(graph, instrs, i + 1,
                   pushSite(siteList,
                            Site(instrs[i].pc,
                                 IF block # NoBlock THEN block.startPc ELSE instrs[i].pc,
                                 targetExpr, classifyTarget(targetExpr), NoPattern)))
  ELSE scanCFG(graph, instrs, i + 1, siteList)

RECURSIVE scanLinear(_, _, _, _)
\* the loop of linear mode over instrs[i..]: the instruction is applied to the
\* running stack before the target slot is read
scanLinear(instrs, i, stack, siteList) ==
  IF i > Len(instrs) THEN siteList
  ELSE LET after == applyInstructionToStackLinear(instrs[i], stack)
       IN  IF instrs[i].op = "DELEGATECALL"
           THEN scanLinear(instrs, i + 1, after,
                           pushSite(siteList,
                                    Site(instrs[i].pc, LinearBlockId, targetExprOf(after),
                                         classifyTarget(targetExprOf(after)), NoPattern)))
           ELSE scanLinear(instrs, i + 1, after, siteList)

RECURSIVE linearStack(_, _, _)
\* the running stack of linear mode after instrs[i..]
linearStack(instrs, i, s) ==
  IF i > Len(instrs) THEN s
  ELSE linearStack(instrs, i + 1, applyInstructionToStackLinear(instrs[i], s))

----------------------------------------------------------------------------
(* Graph generator                                                          *)

\* mutant of classifySiteRisk: the pattern of a hardcoded target is not looked at
classifySiteRiskNoPattern(site) ==
  LET type == site.classification.type
  IN  IF type = "hardcoded" THEN "low"
      ELSE IF type = "storage" THEN "medium"
      ELSE IF type = "calldata" \/ type = "dynamic" THEN "high"
      ELSE "unknown"

\* the risk function of the graph generator
classifySiteRisk(site) ==
  LET type == site.classification.type
      pattern == site.patternMatch.name
  IN  IF type = "hardcoded" THEN (IF pattern = "EIP-1167" THEN "medium" ELSE "low")
      ELSE IF type = "storage"
      THEN (IF pattern = "Diamond" THEN "medium"
            ELSE IF site.patternMatch # NoPattern THEN "medium" ELSE "medium")
      ELSE IF type = "calldata" \/ type = "dynamic" THEN "high"
      ELSE "unknown"

\* a node or edge id: the text before the colon and the text after it
NodeId(ns, key) == [ns |-> ns, key |-> key]

\* "contract:unknown", the id of the contract node when no address is given
contractIdOf(contractAddress) ==
  IF contractAddress # undefined
  THEN NodeId("contract", contractAddress) ELSE NodeId("contract", <<>>)

\* the id of the node a site points to: impl:<address>, storage:<slot> or
\* unknown:<site id>
implIdOf(site) ==
  IF site.classification.addressLiteral # undefined
  THEN NodeId("impl", site.classification.addressLiteral)
  ELSE IF site.classification.storageSlotLiteral # undefined
  THEN NodeId("storage", site.classification.storageSlotLiteral)
  ELSE NodeId("unknown", <<site.id>>)

\* the edge pushed for a site
edgeOf(contractId, site) ==
  LET to == implIdOf(site)
      name == site.patternMatch.name
  IN  [id |-> site.id, from |-> contractId, to |-> to,
       label |-> IF to.ns = "impl"
                 THEN [text |-> IF site.patternMatch # NoPattern THEN name ELSE "DELEGATECALL",
                       slot |-> undefined]
                 ELSE IF to.ns = "storage"
                 THEN [text |-> IF site.patternMatch # NoPattern THEN name ELSE "Storage Proxy",
                       slot |-> slice(site.classification.storageSlotLiteral, 0, 10)]
                 ELSE [text |-> "DELEGATECALL (dynamic)", slot |-> undefined],
       siteId |-> site.id,
       risk |-> classifySiteRisk(site)]

\* the node pushed inside the loop for a site with no literal
unknownNodeOf(site) ==
  [id |-> implIdOf(site), kind |-> "unknown",
   address |-> undefined, siteIds |-> <<site.id>>, risk |-> "undefined",
   classification |-> site.classification.type]

\* mutant of kindOf: a node is never re-kinded
kindOfNeverFacet(siteIds) == "implementation"

\* kind of an implementation node: facet when several sites point to it
kindOf(siteIds) == IF Len(siteIds) > 1 THEN "facet" ELSE "implementation"

\* the node added after the loop for an entry of implAddresses, made by the
\* first site with that id
implNodeOf(siteList, first) ==
  LET implId == implIdOf(siteList[first])
      siteIds == filterIdx([i \in 1..Len(siteList) |-> siteList[i].id],
                           {i \in 1..Len(siteList) : implIdOf(siteList[i]) = implId}, 1)
      address == IF implId.ns = "storage"
                 THEN siteList[first].classification.storageSlotLiteral
                 ELSE siteList[first].classification.addressLiteral
  IN  [id |-> implId, kind |-> kindOf(siteIds),
       address |-> address, siteIds |-> siteIds,
       risk |-> classifySiteRisk(siteList[first]),
       classification |-> "undefined"]

\* generateGraph: the contract node, the unknown nodes in site order, then the
\* entries of implAddresses in insertion order; one edge per site (the display
\* labels of nodes are left out)
generateGraph(contractAddress, siteList) ==
  LET contractId == contractIdOf(contractAddress)
      n == Len(siteList)
      unknowns == {i \in 1..n : implIdOf(siteList[i]).ns = "unknown"}
      firsts == {i \in (1..n) \ unknowns :
                   \A j \in 1..(i - 1) : implIdOf(siteList[j]) # implIdOf(siteList[i])}
  IN  [nodes |->
         <<[id |-> contractId, kind |-> "contract",
            address |-> contractAddress, siteIds |-> <<>>, risk |-> "undefined",
            classification |-> "undefined"]>>
         \o filterIdx([i \in 1..n |-> unknownNodeOf(siteList[i])], unknowns, 1)
         \o filterIdx([i \in 1..n |-> implNodeOf(siteList, i)], firsts, 1),
       edges |-> [i \in 1..n |-> edgeOf(contractId, siteList[i])]]

NoCFG == [blocks |-> <<>>, entryBlock |-> -1]
\* no traceStackAtPC is running
NoTrace == [targetPc |-> -1, worklist |-> <<>>, states |-> <<>>]
NoGraph == [nodes |-> <<>>, edges |-> <<>>]
NoReport == [delegatecallCount |-> -1, overallRisk |-> "undefined", sites |-> <<>>,
             proxiesDetected |-> <<>>, graph |-> NoGraph]

\* the report of analyzeBytecode with no contractAddress and no network given
\* (bytecodeHash, a SHA-256 digest, is left out)
buildReport(code, siteList) ==
  LET enrichedSites == detectProxyPatterns(code, siteList)
      reportSites == reportSitesOf(enrichedSites)
  IN  [delegatecallCount |-> Len(siteList),
       overallRisk |-> overallRiskOf(reportSites),
       sites |-> reportSites,
       proxiesDetected |-> summarizeProxyPatterns(enrichedSites),
       graph |-> generateGraph(undefined, enrichedSites)]

----------------------------------------------------------------------------
(* Inputs                                                                   *)

\* longest enumerated input, in pieces of Alphabet
MaxLen == 4

\* the pieces inputs are enumerated from: DELEGATECALL, PUSH1, CALLDATALOAD,
\* CALLER, JUMPDEST, JUMPI, a byte the opcode table does not know, the single
\* character 'z' (no hex digit; it also shifts the 2-character chunks) and "0x"
Alphabet ==
  {byteToHex(b) : b \in {\hf4, \h60, \h35, \h33, \h5b, \h57, \h0c}} \cup {<<CharZ>>, Str0x}

RECURSIVE StringsOfLen(_)
StringsOfLen(n) ==
  IF n = 0 THEN {<<>>}
  ELSE {s \o c : s \in StringsOfLen(n - 1), c \in Alphabet}

Enumerated == UNION {StringsOfLen(n) : n \in 0..MaxLen}

\* 20 bytes of an implementation address
Addr(b) == [i \in 1..20 |-> b]

\* scenario S1: the EIP-1167 minimal proxy
S1 ==
  Str0x \o EIP1167_PREFIX \o joinHex(Addr(\haa)) \o EIP1167_SUFFIX

\* scenario S3: PUSH1 0x00, CALLDATALOAD, DELEGATECALL
S3 == joinHex(<<\h60, \h00, \h35, \hf4>>)

\* PUSH20 addr, CALLER, DELEGATECALL, JUMPDEST
PushCallerCall == joinHex(<<\h73>> \o Addr(\hbb) \o <<\h33, \hf4, \h5b>>)

\* PUSH20 addr, CALLER, CALLER, DELEGATECALL
PushCallerCallerCall == joinHex(<<\h73>> \o Addr(\hbb) \o <<\h33, \h33, \hf4>>)

\* the prefix and address of a minimal proxy, then CALLER, DELEGATECALL,
\* JUMPDEST and the suffix of a minimal proxy
ProxyWithCaller ==
  Str0x \o EIP1167_PREFIX \o joinHex(Addr(\haa) \o <<\h33, \hf4, \h5b>>) \o EIP1167_SUFFIX

\* the bytes of a minimal proxy with the suffix's 5a f4 as the immediate of a PUSH2
ProxyBytesNoCall ==
  Str0x \o EIP1167_PREFIX \o joinHex(Addr(\haa)) \o joinHex(<<\h61>>) \o EIP1167_SUFFIX

\* CALLDATALOAD, CALLER, CALLER, DELEGATECALL, DELEGATECALL
CalldataThenShallow == joinHex(<<\h35, \h33, \h33, \hf4, \hf4>>)

\* PUSH1 1, SLOAD, CALLER, CALLER, DELEGATECALL, PUSH1 2, PUSH1 3, ADD, CALLER, CALLER, DELEGATECALL
StorageThenDynamic ==
  Str0x \o joinHex(<<\h60, \h01, \h54, \h33, \h33, \hf4,
                     \h60, \h02, \h60, \h03, \h01, \h33, \h33, \hf4>>)

\* an odd number of hex digits: DELEGATECALL and a lone 'f'
OddLength == <<15, 4, 15>>

\* upper-case digits: "0xF4"
UpperCase == Str0x \o <<31, 4>>

\* the bytes of DIV, MOD, AND, OR, XOR, ADDRESS and ORIGIN
ArithmeticBytes == joinHex(<<\h04, \h06, \h16, \h17, \h18, \h30, \h32>>)

\* PUSH20 addr, JUMPDEST, PUSH1 0, DELEGATECALL
PushJumpdestCall == joinHex(<<\h73>> \o Addr(\hbb) \o <<\h5b, \h60, \h00, \hf4>>)

NamedInputs ==
  {S1, S3, PushCallerCall, PushCallerCallerCall, ProxyWithCaller,
   ProxyBytesNoCall, CalldataThenShallow, StorageThenDynamic, OddLength, UpperCase,
   ArithmeticBytes, PushJumpdestCall}

Inputs == Enumerated \cup NamedInputs

----------------------------------------------------------------------------
(* analyzeBytecode as a state machine                                       *)

Init ==
  /\ bytecode \in Inputs
  /\ useCFG \in BOOLEAN
  /\ phase = "start"
  /\ instructions = <<>>
  /\ cfg = NoCFG
  /\ sites = <<>>
  /\ report = NoReport
  /\ stateStack = <<>>
  /\ trace = NoTrace

\* const instructions = decodeBytecode(bytecode)
Decode ==
  /\ phase = "start"
  /\ instructions' = decodeBytecode(bytecode)
  /\ phase' = "decoded"
  /\ UNCHANGED <<bytecode, useCFG, cfg, sites, report, stateStack, trace>>

\* the useCFG branch: buildCFG, then one traced site per DELEGATECALL
ScanCFG ==
  /\ phase = "decoded"
  /\ useCFG
  /\ cfg' = buildCFG(instructions)
  /\ sites' = scanCFG(cfg', instructions, 1, <<>>)
  /\ phase' = "scanned"
  /\ UNCHANGED <<bytecode, useCFG, instructions, report, stateStack, trace>>

\* the linear branch: one running stack over the instruction stream
ScanLinear ==
  /\ phase = "decoded"
  /\ ~useCFG
  /\ sites' = scanLinear(instructions, 1, <<>>, <<>>)
  /\ stateStack' = linearStack(instructions, 1, <<>>)
  /\ phase' = "scanned"
  /\ UNCHANGED <<bytecode, useCFG, instructions, cfg, report, trace>>

\* pattern detection, per-site and overall risk, the report
Report ==
  /\ phase = "scanned"
  /\ report' = buildReport(bytecode, sites)
  /\ phase' = "done"
  /\ UNCHANGED <<bytecode, useCFG, instructions, cfg, sites, stateStack, trace>>

Next == Decode \/ ScanCFG \/ ScanLinear \/ Report

Spec == Init /\ [][Next]_vars

----------------------------------------------------------------------------
(* Classification, pattern detection and the report on given target         *)
(* expressions                                                              *)

\* most sites of a drawn site list
MaxSites == 3

\* the immediate of a PUSH of n bytes, every byte b
PushLiteral(n, b) == Literal(Str0x \o joinHex([i \in 1..n |-> b]))

\* target expressions the two transfer functions build: literals of 19, 20
\* and 21 bytes, SLOAD of the EIP-1967 slot, of the UUPS slot, of a short slot
\* and of a lost slot, CALLDATALOAD, ADD, CALLER and Unknown
TargetExprs ==
  {Unknown,
   PushLiteral(19, \hbb), PushLiteral(20, \hbb), PushLiteral(21, \hbb),
   Storage(Literal(EIP1967_SLOT)), Storage(Literal(UUPS_SLOT)),
   Storage(PushLiteral(1, \h01)), Storage(Unknown),
   Calldata(PushLiteral(1, \h00)),
   OpExpr("ADD", <<PushLiteral(1, \h02), PushLiteral(1, \h03)>>),
   Environment("CALLER")}

\* a minimal proxy whose implementation field has 19 bytes only
ShortProxy == EIP1167_PREFIX \o joinHex([i \in 1..19 |-> \haa]) \o EIP1167_SUFFIX

\* scenario S1 without 0x and in upper-case digits
UpperProxy == [i \in 1..(Len(S1) - 2) |->
                 IF S1[i + 2] \in 10..15 THEN S1[i + 2] + UpperOffset ELSE S1[i + 2]]

\* the bytecodes the pattern detector is given
PatternBytecodes == {<<>>, S1, ShortProxy, UpperProxy}

\* the classification of a site that is not classified yet
NoClassification == Classification("undefined", undefined, undefined, NoDetails)

\* target expressions in site order, the i-th found at pc i
SiteInit ==
  /\ bytecode \in PatternBytecodes
  /\ useCFG = TRUE
  /\ phase = "traced"
  /\ instructions = <<>>
  /\ cfg = NoCFG
  /\ \E n \in 0..MaxSites : \E exprs \in [1..n -> TargetExprs] :
       sites = [i \in 1..n |-> Site(i, i, exprs[i], NoClassification, NoPattern)]
  /\ report = NoReport
  /\ stateStack = <<>>
  /\ trace = NoTrace

\* const classification = classifyTarget(targetExpr), for every site
ClassifySites ==
  /\ phase = "traced"
  /\ sites' = [i \in 1..Len(sites) |->
                 [sites[i] EXCEPT !.classification = classifyTarget(sites[i].targetExpression)]]
  /\ phase' = "scanned"
  /\ UNCHANGED <<bytecode, useCFG, instructions, cfg, report, stateStack, trace>>

SiteNext == ClassifySites \/ Report

SiteSpec == SiteInit /\ [][SiteNext]_vars

----------------------------------------------------------------------------
(* The transfer functions on one instruction and a given stack              *)

\* deepest stack a simulation starts from
MaxDepth == 3

\* the expressions of a start stack
StackExprs == {Unknown, PushLiteral(1, \h01), Environment("CALLER")}

StartStacks == UNION {[1..n -> StackExprs] : n \in 0..MaxDepth}

\* code of one instruction: every single byte, and PUSH1 and PUSH2 with
\* their immediate whole or cut off by the end of the code
OneInstruction ==
  {byteToHex(b) : b \in 0..255}
    \cup {joinHex(<<\h60, \h01>>), joinHex(<<\h61, \h01>>), joinHex(<<\h61, \h01, \h02>>)}

SimulateInit ==
  /\ bytecode \in OneInstruction
  /\ useCFG \in BOOLEAN
  /\ phase = "start"
  /\ instructions = <<>>
  /\ cfg = NoCFG
  /\ sites = <<>>
  /\ report = NoReport
  /\ stateStack \in StartStacks
  /\ trace = NoTrace

\* the instructions are applied to the stack in order: simulateBlock on a block
\* that holds them in CFG mode, the scanner's loop in linear mode
Simulate ==
  /\ phase = "decoded"
  /\ stateStack' = IF useCFG
                   THEN simulateBlock([NoBlock EXCEPT !.instructions = instructions],
                                      BlockState(stateStack)).stack
                   ELSE linearStack(instructions, 1, stateStack)
  /\ phase' = "simulated"
  /\ UNCHANGED <<bytecode, useCFG, instructions, cfg, sites, report, trace>>

SimulateNext == Decode \/ Simulate

SimulateSpec == SimulateInit /\ [][SimulateNext]_vars

----------------------------------------------------------------------------
(* traceStackAtPC, one pass of its worklist loop at a time                  *)

\* the target pcs tried: 0 up to one past the greatest pc of the stream
TargetPcs(instrs) ==
  0..(1 + Max(0, IF instrs = <<>> THEN 0 ELSE instrs[Len(instrs)].pc))

\* most instructions of a traced code
TraceLen == 4

\* JUMPDEST, JUMPI, a byte the opcode table does not know, DELEGATECALL and
\* PUSH1
TraceAlphabet == {byteToHex(b) : b \in {\h5b, \h57, \h0c, \hf4, \h60}}

RECURSIVE TraceCodes(_)
\* the codes of at most n pieces of TraceAlphabet
TraceCodes(n) ==
  IF n = 0 THEN {<<>>}
  ELSE TraceCodes(n - 1) \cup {s \o c : s \in TraceCodes(n - 1), c \in TraceAlphabet}

TraceInit ==
  /\ bytecode \in TraceCodes(TraceLen)
  /\ useCFG = TRUE
  /\ phase = "start"
  /\ instructions = <<>>
  /\ cfg = NoCFG
  /\ sites = <<>>
  /\ report = NoReport
  /\ stateStack = <<>>
  /\ trace = NoTrace

\* const cfg = buildCFG(instructions)
BuildGraph ==
  /\ phase = "decoded"
  /\ cfg' = buildCFG(instructions)
  /\ phase' = "built"
  /\ UNCHANGED <<bytecode, useCFG, instructions, sites, report, stateStack, trace>>

\* the entry of traceStackAtPC: no block holds the target and [] is returned,
\* or the worklist holds the target block and the states map the empty state
\* of the entry block
StartTrace ==
  /\ phase = "built"
  /\ \E targetPc \in TargetPcs(instructions) :
       LET targetBlock == getBlockContaining(cfg.blocks, targetPc)
       IN  IF targetBlock = NoBlock
           THEN /\ trace' = [targetPc |-> targetPc, worklist |-> <<>>, states |-> <<>>]
                /\ phase' = "traced"
           ELSE /\ trace' = [targetPc |-> targetPc,
                             worklist |-> <<targetBlock.startPc>>,
                             states |-> (cfg.entryBlock :> BlockState(<<>>))]
                /\ phase' = "tracing"
  /\ UNCHANGED <<bytecode, useCFG, instructions, cfg, sites, report, stateStack>>

\* one pass of the while loop
Visit ==
  /\ phase = "tracing"
  /\ Len(trace.worklist) > 0
  /\ LET after == worklistStep(cfg.blocks, trace.worklist, trace.states)
     IN  trace' = [trace EXCEPT !.worklist = after.worklist, !.states = after.states]
  /\ UNCHANGED <<bytecode, useCFG, phase, instructions, cfg, sites, report, stateStack>>

\* the loop is left with an empty worklist and the stack at the target is returned
ReturnStack ==
  /\ phase = "tracing"
  /\ Len(trace.worklist) = 0
  /\ stateStack' = replayToTarget(cfg, trace.targetPc, trace.states)
  /\ phase' = "traced"
  /\ UNCHANGED <<bytecode, useCFG, instructions, cfg, sites, report, trace>>

TraceNext == Decode \/ BuildGraph \/ StartTrace \/ Visit \/ ReturnStack

\* the loop is synchronous: a pass that can run does run, and the function
\* returns once the worklist is empty
TraceSpec == TraceInit /\ [][TraceNext]_vars /\ WF_vars(Visit) /\ WF_vars(ReturnStack)

----------------------------------------------------------------------------
(* Properties                                                               *)

Done == phase = "done"

\* after stripping a leading 0x: an even number of characters, all hex digits
WellFormed(code) ==
  LET clean == stripPrefix(code)
  IN  Len(clean) % 2 = 0 /\ \A i \in 1..Len(clean) : HexVal(clean[i]) # -1

\* the byte written at hex characters i+1, i+2 of a well-formed string
ByteAt(clean, i) == 16 * HexVal(clean[i + 1]) + HexVal(clean[i + 2])

RECURSIVE ReachedF4(_, _)
\* the 0xf4 bytes met as opcode bytes from character offset i on: the immediate
\* of a PUSH1..PUSH32 (0x60..0x7f) is skipped
ReachedF4(clean, i) ==
  IF i >= Len(clean) THEN 0
  ELSE IF ByteAt(clean, i) \in 96..127
       THEN ReachedF4(clean, i + 2 * (ByteAt(clean, i) - 94))
       ELSE (IF ByteAt(clean, i) = 244 THEN 1 ELSE 0) + ReachedF4(clean, i + 2)

\* all 0xf4 bytes of a well-formed string, immediates included
AllF4(clean) == Cardinality({k \in 0..(Len(clean) \div 2 - 1) : ByteAt(clean, 2 * k) = 244})

SiteTypes(siteList) == [i \in 1..Len(siteList) |-> siteList[i].classification.type]
SitePcs(siteList) == [i \in 1..Len(siteList) |-> siteList[i].pc]

RiskRank(r) ==
  CASE r = "low" -> 1 [] r = "medium" -> 2 [] r = "high" -> 3 [] r = "unknown" -> 4

HasOp(op) == \E i \in 1..Len(instructions) : instructions[i].op = op

\* C1: for well-formed hex, in both modes, delegatecallCount and the number of
\* sites equal the number of 0xf4 bytes that are not inside a PUSH immediate
C1_CountsReachedDelegatecalls ==
  (Done /\ WellFormed(bytecode)) =>
     /\ report.delegatecallCount = ReachedF4(stripPrefix(bytecode), 0)
     /\ Len(report.sites) = ReachedF4(stripPrefix(bytecode), 0)

\* a finished analysis of well-formed input where one 0xf4 is an opcode and
\* another one sits in a PUSH immediate
C1_Witness ==
  /\ Done /\ WellFormed(bytecode)
  /\ report.delegatecallCount = 1
  /\ AllF4(stripPrefix(bytecode)) = 2

\* C2: scenario S1 with default options yields one hardcoded site with the
\* address 0xaa..aa, pattern EIP-1167, risk medium, overallRisk medium and
\* proxiesDetected = [{EIP-1167, 1}]
C2_S1HardcodedMedium ==
  (Done /\ useCFG /\ bytecode = S1) =>
     /\ Len(report.sites) = 1
     /\ report.sites[1].classification.type = "hardcoded"
     /\ report.sites[1].classification.addressLiteral = Str0x \o joinHex(Addr(\haa))
     /\ report.sites[1].pattern.name = "EIP-1167"
     /\ report.sites[1].risk = "medium"
     /\ report.overallRisk = "medium"
     /\ report.proxiesDetected = <<[name |-> "EIP-1167", count |-> 1]>>

\* C3: scenario S3 (600035f4) yields one calldata site without pattern, risk
\* high, overallRisk high
C3_S3CalldataHigh ==
  (Done /\ useCFG /\ bytecode = S3) =>
     /\ Len(report.sites) = 1
     /\ report.sites[1].classification.type = "calldata"
     /\ report.sites[1].pattern = NoPattern
     /\ report.sites[1].risk = "high"
     /\ report.overallRisk = "high"

\* C3 as amended: S3 yields one site of type unknown without pattern, risk
\* unknown and overallRisk unknown, in both modes
C3_S3ShallowStackUnknown ==
  (Done /\ bytecode = S3) =>
     /\ Len(report.sites) = 1
     /\ report.sites[1].classification.type = "unknown"
     /\ report.sites[1].pattern = NoPattern
     /\ report.sites[1].risk = "unknown"
     /\ report.overallRisk = "unknown"

\* the report of S3 with default options
C3_Witness == Done /\ useCFG /\ bytecode = S3 /\ Len(report.sites) = 1

\* the sites of the other mode on the same instructions
OtherModeSites ==
  IF useCFG THEN scanLinear(instructions, 1, <<>>, <<>>)
  ELSE scanCFG(buildCFG(instructions), instructions, 1, <<>>)

\* C4: on well-formed straight-line bytecode (no JUMP, no JUMPI) both modes
\* return the same site pcs in the same order with the same classification types
C4_ModesAgreeOnStraightLine ==
  (Done /\ WellFormed(bytecode) /\ ~HasOp("JUMP") /\ ~HasOp("JUMPI")) =>
     /\ SitePcs(report.sites) = SitePcs(OtherModeSites)
     /\ SiteTypes(report.sites) = SiteTypes(OtherModeSites)

\* C5: the sites of a report are in strictly ascending order of pc
C5_SitesStrictlyAscending ==
  Done => \A i, j \in 1..Len(report.sites) :
             i < j => /\ report.sites[i].pc < report.sites[j].pc
                      /\ report.sites[i].id # report.sites[j].id

\* a report with three sites
C5_Witness == Done /\ Len(report.sites) = 3

\* C6: overallRisk is absent iff there are no sites; otherwise it is the
\* greatest site risk under low < medium < high < unknown
C6_OverallRiskIsMax ==
  Done =>
     /\ (report.overallRisk = "undefined") <=> (report.sites = <<>>)
     /\ report.sites # <<>> =>
          /\ \E i \in 1..Len(report.sites) : report.sites[i].risk = report.overallRisk
          /\ \A i \in 1..Len(report.sites) :
               RiskRank(report.sites[i].risk) <= RiskRank(report.overallRisk)

\* a report with a high site and an unknown site, whose overallRisk is unknown
C6_Witness ==
  /\ Done
  /\ \E i, j \in 1..Len(report.sites) :
       report.sites[i].risk = "high" /\ report.sites[j].risk = "unknown"
  /\ report.overallRisk = "unknown"

\* C7: site risk is hardcoded -> low (medium under EIP-1167), storage ->
\* medium, calldata and dynamic -> high, unknown -> unknown, whatever else
\* the pattern is
C7_RiskByTypeAndPattern ==
  Done => \A i \in 1..Len(report.sites) :
     LET type == report.sites[i].classification.type
         name == report.sites[i].pattern.name
     IN  report.sites[i].risk =
           CASE type = "hardcoded" -> (IF name = "EIP-1167" THEN "medium" ELSE "low")
             [] type = "storage" -> "medium"
             [] type \in {"calldata", "dynamic"} -> "high"
             [] type = "unknown" -> "unknown"

\* a report with a hardcoded EIP-1167 site of risk medium next to an unknown
\* site that carries the pattern too
C7_Witness ==
  /\ Done
  /\ \E i, j \in 1..Len(report.sites) :
       /\ report.sites[i].classification.type = "hardcoded"
       /\ report.sites[i].pattern.name = "EIP-1167"
       /\ report.sites[i].risk = "medium"
       /\ report.sites[j].classification.type = "unknown"
       /\ report.sites[j].pattern.name = "EIP-1167"
       /\ report.sites[j].risk = "unknown"

\* C8: for a hex string of odd length or with a non-hex character the
\* disassembler fails: no instruction list and no report is produced
C8_MalformedInputFails ==
  ~WellFormed(bytecode) => phase = "start"

\* the guard of Decode, of ScanCFG or ScanLinear, or of Report holds
StepEnabled ==
  \/ phase = "start"
  \/ phase = "decoded" /\ (useCFG \/ ~useCFG)
  \/ phase = "scanned"

TargetTypes == {"hardcoded", "storage", "calldata", "dynamic", "unknown"}

\* C9: the analysis of any input string runs to its report in both modes, and
\* every site has one of the five classification types
C9_TotalAnalysis ==
  /\ ~Done => StepEnabled
  /\ \A i \in 1..Len(sites) : sites[i].classification.type \in TargetTypes
  /\ Done =>
       /\ report # NoReport
       /\ Len(report.sites) = Cardinality({i \in 1..Len(instructions) :
                                             instructions[i].op = "DELEGATECALL"})
       /\ \A i \in 1..Len(report.sites) :
            report.sites[i].classification.type \in TargetTypes

\* a finished analysis of a malformed string with an unknown byte, a JUMPI and
\* a DELEGATECALL on a shallow stack
C9_Witness ==
  /\ Done /\ ~WellFormed(bytecode)
  /\ HasOp("0x") /\ HasOp("JUMPI")
  /\ \E i \in 1..Len(sites) : sites[i].targetExpression = Unknown

\* C10: without a DELEGATECALL instruction the report has delegatecallCount 0,
\* no sites, no overallRisk and no detected proxies
C10_NoDelegatecallEmptyReport ==
  (Done /\ ~HasOp("DELEGATECALL")) =>
     /\ report.delegatecallCount = 0
     /\ report.sites = <<>>
     /\ report.overallRisk = "undefined"
     /\ report.proxiesDetected = <<>>

\* a finished analysis of bytes that match the minimal-proxy prefix and suffix
\* and hold no DELEGATECALL instruction
C10_Witness ==
  /\ Done /\ ~HasOp("DELEGATECALL")
  /\ detectEip1167(stripPrefix(bytecode))

----------------------------------------------------------------------------
(* Properties of the classifier, the pattern detector and the graph         *)

\* every site carries the classification of its target expression
Classified == phase \in {"scanned", "done"}

\* C11: a literal target is hardcoded, with addressLiteral 0x + its digits, iff
\* it has exactly 40 hex characters after 0x; a literal of any other length is
\* unknown with details literal(<v>)
C11_HardcodedIffFortyHex ==
  Classified => \A i \in 1..Len(sites) :
     sites[i].targetExpression.kind = "Literal" =>
       LET hex == stripPrefix(sites[i].targetExpression.value)
           c == sites[i].classification
       IN  IF Len(hex) = 40
           THEN c.type = "hardcoded" /\ c.addressLiteral = Str0x \o hex
           ELSE c.type = "unknown" /\ c.details = Details("literal", Str0x \o hex, "")

\* C12: a non-literal target is classified by its top-level variant alone, and
\* addressLiteral is set only on hardcoded, storageSlotLiteral only on storage
C12_ClassifiedByVariant ==
  Classified => \A i \in 1..Len(sites) :
     LET e == sites[i].targetExpression
         c == sites[i].classification
     IN  /\ e.kind = "Storage" =>
              /\ c.type = "storage"
              /\ c.addressLiteral = undefined
              /\ c.storageSlotLiteral =
                   IF e.slotExpr.kind = "Literal"
                   THEN Str0x \o stripPrefix(e.slotExpr.value) ELSE undefined
         /\ e.kind = "Calldata" => c.type = "calldata"
         /\ e.kind = "Op" => c.type = "dynamic"
         /\ e.kind \in {"Environment", "Unknown"} => c.type = "unknown"
         /\ c.addressLiteral # undefined => c.type = "hardcoded"
         /\ c.storageSlotLiteral # undefined => c.type = "storage"
         /\ e.kind # "Literal" => c.addressLiteral = undefined

\* classified sites with a literal slot, a lost slot and a computed target
C12_Witness ==
  /\ Classified /\ Len(sites) = 3
  /\ sites[1].targetExpression = Storage(PushLiteral(1, \h01))
  /\ sites[1].classification.storageSlotLiteral = Str0x \o <<0, 1>>
  /\ sites[2].targetExpression = Storage(Unknown)
  /\ sites[2].classification.type = "storage"
  /\ sites[3].targetExpression.kind = "Op"
  /\ sites[3].classification.type = "dynamic"

\* pat occurs in s at 0-based offset i
OccursAt(s, pat, i) ==
  i + Len(pat) <= Len(s) /\ \A k \in 1..Len(pat) : s[i + k] = pat[k]

\* the lowercased string holds the minimal-proxy prefix and, 40 or more
\* characters after its end, the minimal-proxy suffix
HoldsMinimalProxy(code) ==
  LET lower == toLowerCase(code)
  IN  \E i \in 0..Len(lower) :
        /\ OccursAt(lower, EIP1167_PREFIX, i)
        /\ \E j \in (i + Len(EIP1167_PREFIX) + 40)..Len(lower) :
              OccursAt(lower, EIP1167_SUFFIX, j)

\* the pattern names of the report's sites
PatternNames == [i \in 1..Len(report.sites) |-> report.sites[i].pattern.name]

\* the slot literals of the classified sites
SlotLiterals == [i \in 1..Len(sites) |-> sites[i].classification.storageSlotLiteral]

\* C13: every site is tagged EIP-1167 exactly when the bytecode holds the
\* prefix and, from 40 characters after it, the suffix; no site then carries
\* another pattern
C13_MinimalProxyTagsEverySite ==
  Done => LET holds == HoldsMinimalProxy(bytecode)
          IN  \A i \in 1..Len(report.sites) : (PatternNames[i] = "EIP-1167") <=> holds

\* a minimal proxy given in upper case whose three sites include the EIP-1967
\* slot and a second slot, all tagged EIP-1167
C13_Witness ==
  /\ Done /\ bytecode = UpperProxy /\ Len(report.sites) = 3
  /\ \E i, j \in 1..3 : /\ SlotLiterals[i] = EIP1967_IMPL_SLOT
                        /\ SlotLiterals[j] \notin {undefined, EIP1967_IMPL_SLOT}
  /\ \A i \in 1..3 : PatternNames[i] = "EIP-1167"

\* C14: without a minimal proxy, a site on the EIP-1967 slot is tagged UUPS if
\* some site carries the UUPS slot and EIP-1967 if none does; a site on another
\* slot is tagged neither
C14_Eip1967OrUups ==
  (Done /\ ~HoldsMinimalProxy(bytecode)) => \A i \in 1..Len(report.sites) :
     IF SlotLiterals[i] = EIP1967_IMPL_SLOT
     THEN PatternNames[i] =
            IF \E j \in 1..Len(sites) : SlotLiterals[j] = UUPS_SLOT
            THEN "UUPS" ELSE "EIP-1967"
     ELSE PatternNames[i] \notin {"EIP-1967", "UUPS"}

\* the EIP-1967 slot tagged UUPS because a later site carries the UUPS slot,
\* the bytecode being a minimal proxy with too short an address field
C14_Witness ==
  /\ Done /\ bytecode = ShortProxy /\ Len(report.sites) = 2
  /\ SlotLiterals[1] = EIP1967_IMPL_SLOT /\ PatternNames[1] = "UUPS"
  /\ SlotLiterals[2] = UUPS_SLOT /\ PatternNames[2] = "Diamond"

\* two or more storage sites whose slot literals are two or more
DiamondCondition ==
  LET storageSites == {i \in 1..Len(sites) : sites[i].classification.type = "storage"}
  IN  /\ Cardinality(storageSites) >= 2
      /\ Cardinality({SlotLiterals[i] : i \in storageSites} \ {undefined}) >= 2

SiteOrders(n) == {p \in [1..n -> 1..n] : \A i, j \in 1..n : p[i] = p[j] => i = j}

\* the pattern name as a function of the bytecode, the site's own slot literal
\* and the set of all slot literals
PatternOfSets(code, slot, slots) ==
  IF HoldsMinimalProxy(code) THEN "EIP-1167"
  ELSE IF slot = EIP1967_IMPL_SLOT
  THEN (IF UUPS_SLOT \in slots THEN "UUPS" ELSE "EIP-1967")
  ELSE IF Cardinality(slots) >= 2 THEN "Diamond"
  ELSE "null"

\* C16: a site keeps its pattern under every permutation of the site list, and
\* the pattern is determined by the bytecode, the site's slot literal and the
\* set of the slot literals of all sites
C16_PatternIgnoresSiteOrder ==
  phase = "scanned" =>
    LET enriched == detectProxyPatterns(bytecode, sites)
        slots == {SlotLiterals[j] : j \in 1..Len(sites)} \ {undefined}
    IN  /\ \A p \in SiteOrders(Len(sites)) :
             LET permuted == detectProxyPatterns(bytecode, [i \in 1..Len(sites) |-> sites[p[i]]])
             IN  \A i \in 1..Len(sites) : permuted[i].patternMatch = enriched[p[i]].patternMatch
        /\ \A i \in 1..Len(sites) :
             enriched[i].patternMatch.name = PatternOfSets(bytecode, SlotLiterals[i], slots)

\* three classified sites whose patterns differ: UUPS, Diamond, Diamond
C16_Witness ==
  /\ phase = "scanned" /\ Len(sites) = 3 /\ ~HoldsMinimalProxy(bytecode)
  /\ SlotLiterals[1] = UUPS_SLOT
  /\ SlotLiterals[2] = undefined
  /\ SlotLiterals[3] = EIP1967_IMPL_SLOT
  /\ detectProxyPatterns(bytecode, sites)[3].patternMatch.name = "UUPS"
  /\ detectProxyPatterns(bytecode, sites)[2].patternMatch.name = "Diamond"

----------------------------------------------------------------------------
(* Properties of the disassembler, the graph builder and the tracer         *)

\* C17: the bytes of DIV, MOD, AND, OR, XOR, ADDRESS and ORIGIN are decoded to
\* their mnemonics, never to the placeholder 0xNN of arity (0,0)
C17_RequiredOpcodesDecoded ==
  (phase # "start" /\ WellFormed(bytecode)) => \A i \in 1..Len(instructions) :
     ~ ( /\ instructions[i].op = "0x"
         /\ instructions[i].n \in {\h04, \h06, \h16, \h17, \h18, \h30, \h32} )

\* C18: in the graph of buildCFG, a is a successor of b iff b is a predecessor
\* of a, and every successor and predecessor is the startPc of a block
C18_EdgesConsistent ==
  LET blocks == cfg.blocks
      keys == {blocks[i].startPc : i \in 1..Len(blocks)}
  IN  /\ \A a, b \in 1..Len(blocks) :
           (blocks[a].startPc \in Range(blocks[b].successors))
             <=> (blocks[b].startPc \in Range(blocks[a].predecessors))
      /\ \A a \in 1..Len(blocks) :
           Range(blocks[a].successors) \cup Range(blocks[a].predecessors) \subseteq keys

\* a graph of three blocks or more where a JUMPI block falls through to the
\* next block and some block has no successor
C18_Witness ==
  /\ Len(cfg.blocks) >= 3
  /\ \E a, b \in 1..Len(cfg.blocks) :
       /\ a # b
       /\ cfg.blocks[a].instructions # <<>>
       /\ cfg.blocks[a].instructions[Len(cfg.blocks[a].instructions)].op = "JUMPI"
       /\ cfg.blocks[a].successors = <<cfg.blocks[b].startPc>>
       /\ cfg.blocks[b].predecessors = <<cfg.blocks[a].startPc>>
  /\ \E a \in 1..Len(cfg.blocks) : cfg.blocks[a].successors = <<>>

\* the edges of the report's graph that point to the node
EdgesTo(node) == {i \in 1..Len(report.graph.edges) : report.graph.edges[i].to = node.id}

\* C19: the node ids of a graph are pairwise distinct; a target node reached
\* by two sites or more is a facet, one reached by a single site through an
\* address or slot literal is an implementation, one reached by a site with
\* neither literal is unknown
C19_NodesDistinctFacetByCount ==
  Done =>
    LET nodes == report.graph.nodes
    IN  /\ \A i, j \in 1..Len(nodes) : nodes[i].id = nodes[j].id => i = j
        /\ \A i \in 1..Len(report.graph.edges) :
             \E k \in 1..Len(nodes) : nodes[k].id = report.graph.edges[i].to
        /\ \A k \in 1..Len(nodes) :
             nodes[k].kind =
               IF nodes[k].id.ns = "contract" THEN "contract"
               ELSE IF Cardinality(EdgesTo(nodes[k])) >= 2 THEN "facet"
               ELSE IF nodes[k].id.ns = "unknown" THEN "unknown"
               ELSE "implementation"

\* three sites: two on one address share a facet node, one with no literal has
\* an unknown node of its own
C19_Witness ==
  /\ Done /\ Len(report.sites) = 3 /\ Len(report.graph.nodes) = 3
  /\ \E k \in 1..3 : /\ report.graph.nodes[k].kind = "facet"
                     /\ report.graph.nodes[k].id.ns = "impl"
                     /\ Cardinality(EdgesTo(report.graph.nodes[k])) = 2
  /\ \E k \in 1..3 : report.graph.nodes[k].kind = "unknown"

\* C20: for a DELEGATECALL in a block without predecessors, traceStackAtPC
\* returns the stack that the instructions of the block before the target
\* build from the empty stack
C20_ReplayFromInputState ==
  (phase = "scanned" /\ useCFG /\ WellFormed(bytecode)) => \A i \in 1..Len(instructions) :
     instructions[i].op = "DELEGATECALL" =>
       LET block == getBlockContaining(cfg.blocks, instructions[i].pc)
           at == findPc(block.instructions, instructions[i].pc)
       IN  (block # NoBlock /\ block.predecessors = <<>> /\ at # 0) =>
             traceStackAtPC(cfg, instructions[i].pc)
               = applyAll(SubSeq(block.instructions, 1, at - 1), 1, <<>>)

\* the instructions before index i form an entry block that falls through
\* into a block opened by the JUMPDEST at index j: no other JUMPDEST and no
\* terminator comes before i
FallsThroughAt(i, j) ==
  /\ 1 < j /\ j < i
  /\ instructions[j].op = "JUMPDEST"
  /\ \A k \in 1..(i - 1) :
       /\ instructions[k].op \notin TERMINATORS
       /\ (instructions[k].op = "JUMPDEST" => k = j)

\* C21: when the block of a DELEGATECALL is entered by fall-through from the
\* entry block only, the target recorded for the site is slot len-2 of the
\* stack that the entry block and the instructions of the target block before
\* the DELEGATECALL build from the empty stack
C21_PredecessorValuesReachCall ==
  (phase = "scanned" /\ useCFG /\ WellFormed(bytecode)) =>
    \A i \in 1..Len(instructions) : \A j \in 1..Len(instructions) :
       (instructions[i].op = "DELEGATECALL" /\ FallsThroughAt(i, j)) =>
          \A k \in 1..Len(sites) :
             sites[k].pc = instructions[i].pc =>
               sites[k].targetExpression
                 = targetExprOf(applyAll(SubSeq(instructions, 1, i - 1), 1, <<>>))

\* the blocks of the graph whose instruction list holds instruction i of the stream
BlocksHolding(i) ==
  {b \in 1..Len(cfg.blocks) : instructions[i] \in Range(cfg.blocks[b].instructions)}

\* the block with the greatest leader
LastBlock ==
  cfg.blocks[CHOOSE b \in 1..Len(cfg.blocks) :
               \A c \in 1..Len(cfg.blocks) : cfg.blocks[c].startPc <= cfg.blocks[b].startPc]

\* C22: every instruction of the stream is in the instruction list of exactly
\* one block, the block with the greatest leader holds every instruction from
\* its leader on, and getBlockContaining finds a block for every DELEGATECALL
C22_EveryInstructionInOneBlock ==
  (phase = "scanned" /\ useCFG /\ WellFormed(bytecode)) =>
    \A i \in 1..Len(instructions) :
       /\ Cardinality(BlocksHolding(i)) = 1
       /\ instructions[i].pc >= LastBlock.startPc
            => instructions[i] \in Range(LastBlock.instructions)
       /\ instructions[i].op = "DELEGATECALL"
            => getBlockContaining(cfg.blocks, instructions[i].pc) # NoBlock

\* C23: the program counters of the decoded instructions are strictly
\* increasing along the stream
C23_PcStrictlyIncreasing ==
  (phase # "start" /\ WellFormed(bytecode)) =>
    \A i \in 1..(Len(instructions) - 1) : instructions[i].pc < instructions[i + 1].pc

\* C24: in every block of the graph a terminator is the last instruction of
\* the block, and the instruction that follows a terminator in the stream has
\* the startPc of a block as its pc
C24_TerminatorEndsBlock ==
  (phase = "scanned" /\ useCFG /\ WellFormed(bytecode)) =>
    /\ \A b \in 1..Len(cfg.blocks) :
         \A k \in 1..(Len(cfg.blocks[b].instructions) - 1) :
            cfg.blocks[b].instructions[k].op \notin TERMINATORS
    /\ \A i \in 1..(Len(instructions) - 1) :
         instructions[i].op \in TERMINATORS
           => blockIndexAt(cfg.blocks, instructions[i + 1].pc) # 0

----------------------------------------------------------------------------
(* Properties of the transfer functions                                     *)

\* the mnemonics the tracer's transfer function has a rule of its own for
DedicatedOps ==
  {"PUSH", "DUP", "SWAP", "CALLDATALOAD", "SLOAD", "CALLER", "ADDRESS", "ORIGIN",
   "MLOAD", "MSTORE", "MSTORE8", "ADD", "SUB", "MUL", "DIV", "MOD", "AND", "OR",
   "XOR", "EQ", "LT", "GT", "ISZERO", "POP"}

\* the step simulates one instruction
SimulatesOne == phase = "decoded" /\ phase' = "simulated" /\ Len(instructions) = 1

\* C25: in CFG mode an opcode of the opcode table without a rule of its own
\* pops stackIn slots and pushes stackOut Unknowns
C25_DefaultRulePopsAndPushes ==
  [][ (SimulatesOne /\ useCFG
         /\ instructions[1].op # "0x" /\ instructions[1].op \notin DedicatedOps)
      => stateStack' = afterPop(stateStack, instructions[1].stackIn)
                         \o [i \in 1..instructions[1].stackOut |-> Unknown] ]_vars

\* C26: in both modes a byte the opcode table does not know removes the top
\* slot of a non-empty stack and pushes nothing
C26_UnknownBytePopsOne ==
  [][ (SimulatesOne /\ instructions[1].op = "0x" /\ stateStack # <<>>)
      => stateStack' = SubSeq(stateStack, 1, Len(stateStack) - 1) ]_vars

\* byte k (from 1) of the immediate written in pushData
ImmediateByte(pushData, k) == 16 * HexVal(pushData[2 * k + 1]) + HexVal(pushData[2 * k + 2])

\* C27: the immediate of a decoded PUSH-N has N bytes: the bytes that follow
\* the opcode in the code, and zero for every byte past the end of the code
C27_PushImmediateZeroPadded ==
  (phase # "start" /\ WellFormed(bytecode)) =>
    LET clean == stripPrefix(bytecode)
    IN  \A i \in 1..Len(instructions) :
          instructions[i].op = "PUSH" =>
            LET N == instructions[i].n
                offset == instructions[i].pc - 1 - N
            IN  /\ Len(instructions[i].pushData) = 2 + 2 * N
                /\ \A k \in 1..N :
                     ImmediateByte(instructions[i].pushData, k)
                       = IF 2 * (offset + k) < Len(clean)
                         THEN ByteAt(clean, 2 * (offset + k)) ELSE 0

----------------------------------------------------------------------------
(* The graph of a report against its sites                                  *)

\* C29: the graph of a report has one edge per site, in site order; every
\* edge leaves the contract node and ends at a node of the graph, and carries
\* the risk reported for its site
C29_EdgeCarriesSiteRisk ==
  Done =>
    LET nodes == report.graph.nodes
        edges == report.graph.edges
    IN  /\ Len(edges) = Len(report.sites)
        /\ Cardinality({k \in 1..Len(nodes) : nodes[k].kind = "contract"}) = 1
        /\ \A i \in 1..Len(edges) :
             /\ edges[i].siteId = report.sites[i].id
             /\ \E k \in 1..Len(nodes) :
                  nodes[k].kind = "contract" /\ nodes[k].id = edges[i].from
             /\ \E k \in 1..Len(nodes) : nodes[k].id = edges[i].to
             /\ edges[i].risk = report.sites[i].risk

\* a report with a hardcoded site tagged EIP-1167 (risk medium) and a site of
\* another risk, each with its edge
C29_Witness ==
  /\ Done /\ Len(report.sites) >= 2
  /\ \E i \in 1..Len(report.sites) :
       /\ report.sites[i].classification.type = "hardcoded"
       /\ report.sites[i].pattern.name = "EIP-1167"
       /\ report.graph.edges[i].risk = "medium"
  /\ \E i \in 1..Len(report.sites) : report.graph.edges[i].risk \in {"high", "unknown"}

----------------------------------------------------------------------------
(* Shape of the graph                                                       *)

\* C30: every block of the graph has at most one successor and at most one
\* predecessor, and a successor starts after the block it follows; so at most
\* one predecessor state enters the join of a block
C30_ForwardChain ==
  (phase = "scanned" /\ useCFG) =>
    \A b \in 1..Len(cfg.blocks) :
       /\ Len(cfg.blocks[b].successors) <= 1
       /\ Len(cfg.blocks[b].predecessors) <= 1
       /\ \A s \in Range(cfg.blocks[b].successors) : s > cfg.blocks[b].startPc
       /\ \A p \in Range(cfg.blocks[b].predecessors) : p < cfg.blocks[b].startPc

\* the graph of well-formed code with a JUMPI and a JUMPDEST where a block has
\* both a predecessor and a successor
C30_Witness ==
  /\ phase = "scanned" /\ useCFG /\ WellFormed(bytecode)
  /\ HasOp("JUMPI") /\ HasOp("JUMPDEST")
  /\ \E b \in 1..Len(cfg.blocks) :
       Len(cfg.blocks[b].successors) = 1 /\ Len(cfg.blocks[b].predecessors) = 1

----------------------------------------------------------------------------
(* Termination of the tracer                                                *)

\* C28: every run of traceStackAtPC that enters the worklist loop leaves it
\* with an empty worklist and returns
C28_WorklistEmpties == (phase = "tracing") ~> (phase = "traced" /\ trace.worklist = <<>>)

\* a returned trace on well-formed code that visited two blocks beyond the
\* entry block
C28_Witness ==
  /\ phase = "traced" /\ trace.worklist = <<>> /\ WellFormed(bytecode)
  /\ Cardinality(DOMAIN trace.states) >= 3

====
